---------------------------- MODULE Spec2Model ----------------------------
(***************************************************************************)
(* Resume parsing and layout planning pipeline of the CV builder:          *)
(* parser.py (preclean, wipe_if_not_in_source, segment_resume_text, the    *)
(* nine parse_*_chunk extractors, parse_resume), parser_ui.py              *)
(* (single-call parse_resume), layout_generator.py (generate_layout_plan)  *)
(* and generator_ui_layout.py (generate_html's planning step), and the     *)
(* sessions of app_playwright.py and app2.py that call them.  Pure         *)
(* functions (preclean, wipe_if_not_in_source, the handling of a response, *)
(* content_summary, the path of the record) have runs of their own that    *)
(* apply them to every input within the bounds.                            *)
(*                                                                         *)
(* Strings are sequences of one-character strings.  Characters that are    *)
(* not ASCII are written by name: "bullet" U+2022, "blackcircle" U+25CF,   *)
(* "endash" U+2013, "lsquo" U+2018, "rsquo" U+2019, "ldquo" U+201C,        *)
(* "rdquo" U+201D, "eacute" U+00E9, "surrogate" a lone surrogate such as   *)
(* U+D800.                                                                 *)
(* JSON values (what json.loads returns) are tagged records.               *)
(***************************************************************************)
EXTENDS Integers, Sequences, FiniteSets, TLC

VARIABLES
    pc,           \* position of the run: parse_resume, then generate_html
    src,          \* the source file handed to parse_resume
    text,         \* parse_resume: text = preclean(read_file_content(src_path))
    segments,     \* parse_resume: segments = segment_resume_text(text)
    parsed_data,  \* parse_resume: the record being assembled
    returned,     \* what each extractor that returned has returned
    failed,       \* stages that printed a failure message and fell back
    calls,        \* generate_content calls issued, per caller
    record_file,  \* content of <stem>.parsed.json, or NoFile
    layout_file,  \* content of <stem>.layout.json, or NoFile
    layout_plan,  \* generate_html: the plan handed to template.render
    fn,           \* position of a run that applies one pure function
    input,        \* its argument(s)
    output,       \* its result
    output2,      \* the result of applying it to its own result
    callers,      \* sessions of the app: the locals of each one's generate_html
    cache_origin  \* the record and template the layout file was planned for

vars == <<pc, src, text, segments, parsed_data, returned, failed, calls,
          record_file, layout_file, layout_plan, fn, input, output, output2,
          callers, cache_origin>>

(***************************************************************************)
(* Bounds                                                                  *)
(***************************************************************************)
MaxRawLen == 5      \* longest raw text given to preclean on its own
MaxNameLen == 2     \* longest candidate given to wipe_if_not_in_source
MaxSourceLen == 3   \* longest source given to wipe_if_not_in_source
MaxFilled == 2      \* most segmentation fields that are not "" in one result

(***************************************************************************)
(* Strings                                                                 *)
(***************************************************************************)
\* all strings over alphabet A of length at most n
StringsUpTo(A, n) == UNION {[1..k -> A] : k \in 0..n}

\* the characters str.strip() and the regex class \s treat as whitespace
Whitespace == {" ", "\t", "\n"}

\* the subsequence of s at the indices in K, from index i on
RECURSIVE Pick(_, _, _)
Pick(s, K, i) ==
    IF i > Len(s) THEN <<>>
    ELSE (IF i \in K THEN <<s[i]>> ELSE <<>>) \o Pick(s, K, i + 1)

\* str.strip(): drop leading and trailing whitespace
Strip(s) ==
    LET solid == {i \in 1..Len(s) : s[i] \notin Whitespace}
    IN  Pick(s, {i \in 1..Len(s) : /\ \E j \in solid : j <= i
                                   /\ \E j \in solid : j >= i}, 1)

\* v in s (Python substring test)
IsSubstring(v, s) ==
    \E i \in 0..(Len(s) - Len(v)) : SubSeq(s, i + 1, i + Len(v)) = v

\* s with every character c replaced by the string rep[c] (str.replace chain
\* over single characters whose replacements contain none of them)
RECURSIVE ReplaceChars(_, _)
ReplaceChars(s, rep) ==
    IF s = <<>> THEN <<>>
    ELSE (IF Head(s) \in DOMAIN rep THEN rep[Head(s)] ELSE <<Head(s)>>)
         \o ReplaceChars(Tail(s), rep)

(***************************************************************************)
(* preclean                                                                *)
(***************************************************************************)
\* a plausible slip: the en dash is given the marker of the bullets
BulletsAllMarkers ==
    [bullet |-> <<"-", " ">>, blackcircle |-> <<"-", " ">>,
     endash |-> <<"-", " ">>]

Bullets == [bullet |-> <<"-", " ">>, blackcircle |-> <<"-", " ">>,
            endash |-> <<"-">>]

Quotes == [lsquo |-> <<"'">>, rsquo |-> <<"'">>,
           ldquo |-> <<"\"">>, rdquo |-> <<"\"">>]

\* re.sub(r"[ \t]+\n", "\n", t): a run of spaces/tabs that ends at a newline
\* is removed
RStripLines(s) ==
    LET blank(i) == s[i] \in {" ", "\t"}
        dropped(i) == /\ blank(i)
                      /\ \E j \in (i + 1)..Len(s) :
                            /\ s[j] = "\n"
                            /\ \A k \in i..(j - 1) : blank(k)
    IN  Pick(s, {i \in 1..Len(s) : ~dropped(i)}, 1)

\* re.sub(r"\n{3,}", "\n\n", t): of a run of newlines only the first two stay
CollapseNewlines(s) ==
    LET third(i) == /\ i >= 3
                    /\ s[i] = "\n" /\ s[i - 1] = "\n" /\ s[i - 2] = "\n"
    IN  Pick(s, {i \in 1..Len(s) : ~third(i)}, 1)

\* a plausible slip: trailing blanks are removed before bullets are replaced
preclean_blanks_first(raw) ==
    LET t1 == RStripLines(raw)
        t2 == ReplaceChars(t1, Bullets)
        t3 == CollapseNewlines(t2)
        t4 == ReplaceChars(t3, Quotes)
    IN  Strip(t4)

\* a plausible slip: the result is returned without the final strip
preclean_unstripped(raw) ==
    LET t1 == ReplaceChars(raw, Bullets)
        t2 == RStripLines(t1)
        t3 == CollapseNewlines(t2)
    IN  ReplaceChars(t3, Quotes)

preclean(raw) ==
    LET t1 == ReplaceChars(raw, Bullets)
        t2 == RStripLines(t1)
        t3 == CollapseNewlines(t2)
        t4 == ReplaceChars(t3, Quotes)
    IN  Strip(t4)

(***************************************************************************)
(* JSON values                                                             *)
(***************************************************************************)
JNull == [t |-> "null"]
JNum(n) == [t |-> "num", n |-> n]
JStr(s) == [t |-> "str", s |-> s]
JList(items) == [t |-> "list", items |-> items]
JObj(m) == [t |-> "obj", m |-> m]

\* the empty dict
EmptyMap == <<>>

\* Python truth value of a JSON value
Truthy(v) ==
    CASE v.t = "null" -> FALSE
      [] v.t = "num" -> v.n # 0
      [] v.t = "str" -> v.s # <<>>
      [] v.t = "list" -> v.items # <<>>
      [] v.t = "obj" -> DOMAIN v.m # {}

(***************************************************************************)
(* wipe_if_not_in_source                                                   *)
(***************************************************************************)
\* str.lower() on one character
Lower(c) == CASE c = "A" -> "a" [] c = "B" -> "b" [] OTHER -> c

\* the characters the class [a-z] matches
AsciiLower == {"a", "b"}

\* re.sub(r"[^a-z]", "", s.lower())
LettersOnly(s) ==
    LET low == [i \in 1..Len(s) |-> Lower(s[i])]
    IN  Pick(low, {i \in 1..Len(low) : low[i] \in AsciiLower}, 1)

\* a plausible slip: the reduced form is returned
wipe_returns_reduced(value, source) ==
    IF ~Truthy(value) THEN value
    ELSE IF IsSubstring(LettersOnly(value.s), LettersOnly(source))
         THEN JStr(LettersOnly(value.s))
         ELSE JNull

\* value is None or a str
wipe_if_not_in_source(value, source) ==
    IF ~Truthy(value) THEN value
    ELSE IF IsSubstring(LettersOnly(value.s), LettersOnly(source))
         THEN value
         ELSE JNull


(***************************************************************************)
(* Inference service responses                                             *)
(***************************************************************************)
\* A response of client.models.generate_content: the call raises ("error"),
\* resp.text is None ("none"), or resp.text is a text ("text").  A text is a
\* sequence of tokens: "FENCE_JSON" (three backticks and the word json) and
\* "FENCE" (three backticks) are fence markers, "\n" is
\* whitespace, "<json>" is the serialisation of the JSON value in field
\* json, and "G" is text that is not JSON.
ErrorResponse == [kind |-> "error", text |-> <<>>, json |-> JNull]
NoTextResponse == [kind |-> "none", text |-> <<>>, json |-> JNull]
TextResponse(tokens, v) == [kind |-> "text", text |-> tokens, json |-> v]

Plain(v) == TextResponse(<<"<json>">>, v)
FencedJson(v) == TextResponse(<<"FENCE_JSON", "\n", "<json>", "\n", "FENCE">>, v)
FencedBare(v) == TextResponse(<<"FENCE", "\n", "<json>", "\n", "FENCE">>, v)
Garbage == TextResponse(<<"G">>, JNull)

\* the responses the service can give when asked for a value out of V
ResponsesOver(V) ==
    {ErrorResponse, NoTextResponse, Garbage}
        \cup {Plain(v) : v \in V}
        \cup {FencedJson(v) : v \in V}
        \cup {FencedBare(v) : v \in V}

\* re.sub(r"^FENCE_JSON\s*|\s*FENCE$", "", raw_text)
StripFence(tokens) ==
    LET n == Len(tokens)
        opened == n > 0 /\ tokens[1] = "FENCE_JSON"
        closed == n > 0 /\ tokens[n] = "FENCE" /\ ~(n = 1 /\ opened)
        first == IF ~opened THEN 1
                 ELSE IF \E i \in 2..n : tokens[i] \notin Whitespace
                      THEN CHOOSE i \in 2..n :
                               /\ tokens[i] \notin Whitespace
                               /\ \A j \in 2..(i - 1) : tokens[j] \in Whitespace
                      ELSE n + 1
        last == IF ~closed THEN n
                ELSE IF \E i \in 1..(n - 1) : tokens[i] \notin Whitespace
                     THEN CHOOSE i \in 1..(n - 1) :
                              /\ tokens[i] \notin Whitespace
                              /\ \A j \in (i + 1)..(n - 1) :
                                     tokens[j] \in Whitespace
                     ELSE 0
    IN  SubSeq(tokens, first, last)

\* json.loads: succeeds on one JSON document with optional whitespace around
json_loads(tokens, v) ==
    IF Strip(tokens) = <<"<json>">>
    THEN [ok |-> TRUE, val |-> v]
    ELSE [ok |-> FALSE, val |-> JNull]

\* raw_text = resp.text.strip(); clean_json_text = re.sub(...);
\* json.loads(clean_json_text) -- ok is FALSE when any of these raises
LoadResponse(resp) ==
    IF resp.kind # "text" THEN [ok |-> FALSE, val |-> JNull]
    ELSE json_loads(StripFence(Strip(resp.text)), resp.json)

(***************************************************************************)
(* Sections and schema                                                     *)
(***************************************************************************)
\* the sections in the order parse_resume handles them
Sections == <<"contact_info", "work_experience", "education", "skills",
              "summary", "certifications", "projects", "languages", "awards">>

SectionNames == {Sections[i] : i \in 1..Len(Sections)}

\* the key of each section span in the segmentation result
SectionKey == [contact_info |-> "contact_info_section",
               work_experience |-> "work_experience_section",
               education |-> "education_section",
               skills |-> "skills_section",
               summary |-> "summary_section",
               certifications |-> "certifications_section",
               projects |-> "projects_section",
               languages |-> "languages_section",
               awards |-> "awards_section"]

\* SEGMENTATION_SCHEMA["properties"].keys()
SEGMENTATION_KEYS ==
    {"candidate_name_text"} \cup {SectionKey[s] : s \in SectionNames}

\* RESUME_SCHEMA["required"] of parser.py, in order
RESUME_SCHEMA_required ==
    <<"contact_info", "work_experience", "education", "skills", "projects">>

EmptySkills == JObj([clinical |-> JList(<<>>), technical |-> JList(<<>>),
                     soft |-> JList(<<>>), tools |-> JList(<<>>)])

\* what each extractor returns for an empty span or on failure
ZeroValue(sec) ==
    CASE sec = "contact_info" -> JObj(EmptyMap)
      [] sec = "skills" -> EmptySkills
      [] sec = "summary" -> JStr(<<>>)
      [] OTHER -> JList(<<>>)

\* d[k] = v on a dict
SetKey(m, k, v) == [x \in DOMAIN m \cup {k} |-> IF x = k THEN v ELSE m[x]]

\* d.get(k, default) on a dict
Get(m, k, default) == IF k \in DOMAIN m THEN m[k] ELSE default

(***************************************************************************)
(* Section extractors                                                      *)
(***************************************************************************)
\* The result of running a piece of code: the value it returned, whether it
\* issued an inference call, whether an exception left it (exc), and whether
\* it printed a failure message and fell back (fell).
Returned(v, called) ==
    [val |-> v, called |-> called, exc |-> FALSE, fell |-> FALSE]
FellBack(v, called) ==
    [val |-> v, called |-> called, exc |-> FALSE, fell |-> TRUE]
Raised(called) ==
    [val |-> JNull, called |-> called, exc |-> TRUE, fell |-> FALSE]

\* "if not chunk.strip()": the span is a str and only whitespace
IsBlank(chunk) == chunk.t = "str" /\ Strip(chunk.s) = <<>>

\* a plausible slip: "if not chunk" in place of "if not chunk.strip()"
ParseJsonChunkUnstripped(chunk, resp, zero) ==
    IF chunk.t # "str" THEN Raised(FALSE)
    ELSE IF chunk.s = <<>> THEN Returned(zero, FALSE)
    ELSE LET r == LoadResponse(resp)
         IN  IF r.ok THEN Returned(r.val, TRUE) ELSE FellBack(zero, TRUE)

\* the shape shared by the eight JSON extractors: short-circuit on a blank
\* span, else one call, json.loads of the response, zero on any exception
ParseJsonChunk(chunk, resp, zero) ==
    IF chunk.t # "str" THEN Raised(FALSE)
    ELSE IF IsBlank(chunk) THEN Returned(zero, FALSE)
    ELSE LET r == LoadResponse(resp)
         IN  IF r.ok THEN Returned(r.val, TRUE) ELSE FellBack(zero, TRUE)

parse_work_experience_chunk(chunk, resp) ==
    ParseJsonChunk(chunk, resp, JList(<<>>))

parse_education_chunk(chunk, resp) ==
    ParseJsonChunk(chunk, resp, JList(<<>>))

parse_skills_chunk(chunk, resp) ==
    ParseJsonChunk(chunk, resp, EmptySkills)

parse_contact_info_chunk(chunk, resp) ==
    ParseJsonChunk(chunk, resp, JObj(EmptyMap))

parse_summary_chunk(chunk, resp) ==
    IF chunk.t # "str" THEN Raised(FALSE)
    ELSE IF IsBlank(chunk) THEN Returned(JStr(<<>>), FALSE)
    ELSE IF resp.kind = "text" THEN Returned(JStr(Strip(resp.text)), TRUE)
    ELSE FellBack(JStr(<<>>), TRUE)

parse_certifications_chunk(chunk, resp) ==
    ParseJsonChunk(chunk, resp, JList(<<>>))

parse_projects_chunk(chunk, resp) ==
    ParseJsonChunk(chunk, resp, JList(<<>>))

parse_languages_chunk(chunk, resp) ==
    ParseJsonChunk(chunk, resp, JList(<<>>))

parse_awards_chunk(chunk, resp) ==
    ParseJsonChunk(chunk, resp, JList(<<>>))

\* the extractor of each section
ParseChunk(sec, chunk, resp) ==
    CASE sec = "contact_info" -> parse_contact_info_chunk(chunk, resp)
      [] sec = "work_experience" -> parse_work_experience_chunk(chunk, resp)
      [] sec = "education" -> parse_education_chunk(chunk, resp)
      [] sec = "skills" -> parse_skills_chunk(chunk, resp)
      [] sec = "summary" -> parse_summary_chunk(chunk, resp)
      [] sec = "certifications" -> parse_certifications_chunk(chunk, resp)
      [] sec = "projects" -> parse_projects_chunk(chunk, resp)
      [] sec = "languages" -> parse_languages_chunk(chunk, resp)
      [] sec = "awards" -> parse_awards_chunk(chunk, resp)

\* a plausible slip: the except branch returns nothing
segment_resume_text_none(resp) ==
    LET r == LoadResponse(resp)
    IN  IF r.ok THEN Returned(r.val, TRUE) ELSE FellBack(JNull, TRUE)

\* segment_resume_text: the parsed response, or every key "" on any failure
segment_resume_text(resp) ==
    LET r == LoadResponse(resp)
    IN  IF r.ok THEN Returned(r.val, TRUE)
        ELSE FellBack(JObj([k \in SEGMENTATION_KEYS |-> JStr(<<>>)]), TRUE)


(***************************************************************************)
(* parse_resume (parser.py)                                                *)
(***************************************************************************)
\* a plausible slip: the suffix is tested before the existence of the file
read_file_content_suffix_first(file) ==
    IF file.suffix \notin {".txt", ".docx", ".pdf"}
    THEN [exc |-> "ValueError", content |-> <<>>]
    ELSE IF ~file.exists THEN [exc |-> "FileNotFoundError", content |-> <<>>]
    ELSE [exc |-> "none", content |-> file.content]

\* read_file_content: the text of a .txt, .docx or .pdf file that exists
read_file_content(file) ==
    IF ~file.exists THEN [exc |-> "FileNotFoundError", content |-> <<>>]
    ELSE IF file.suffix \in {".txt", ".docx", ".pdf"}
         THEN [exc |-> "none", content |-> file.content]
         ELSE [exc |-> "ValueError", content |-> <<>>]

\* a plausible slip: the except clause stores None in place of the zero-value
TryExceptNone(body, zero) ==
    IF body.exc THEN FellBack(JNull, body.called) ELSE body

\* try: <body> except Exception: print(...); parsed_data[...] = zero
TryExcept(body, zero) ==
    IF body.exc THEN FellBack(zero, body.called) ELSE body

\* a plausible slip: parsed_data = {field: v} rebinds the record
StoreFieldRebind(pd, field, v) == [x \in {field} |-> v]

\* parsed_data[field] = v
StoreField(pd, field, v) == SetKey(pd, field, v)

\* the try body of a section other than contact_info:
\* parse_X_chunk(segments.get("X_section", ""))
SectionBody(sec, segs, resp) ==
    IF segs.t # "obj" THEN Raised(FALSE)
    ELSE ParseChunk(sec, Get(segs.m, SectionKey[sec], JStr(<<>>)), resp)

\* "name" in contact_info, for a truthy contact_info
HasName(ci) ==
    CASE ci.t = "obj" -> [exc |-> FALSE, found |-> "name" \in DOMAIN ci.m]
      [] ci.t = "list" ->
            [exc |-> FALSE,
             found |-> \E i \in 1..Len(ci.items) :
                           ci.items[i] = JStr(<<"n", "a", "m", "e">>)]
      [] ci.t = "str" ->
            [exc |-> FALSE, found |-> IsSubstring(<<"n", "a", "m", "e">>, ci.s)]
      [] OTHER -> [exc |-> TRUE, found |-> FALSE]

\* a plausible slip: the candidate name only fills in for a name the
\* extractor did not return
MergeNameKeepsExtracted(ci, segs, txt) ==
    LET candidate_name == Get(segs.m, "candidate_name_text", JStr(<<>>))
        named == Truthy(candidate_name)
        ci1 == IF named /\ ci.t = "obj" /\ ~Truthy(Get(ci.m, "name", JNull))
               THEN JObj(SetKey(ci.m, "name", candidate_name))
               ELSE ci
        has == IF Truthy(ci1) THEN HasName(ci1)
               ELSE [exc |-> FALSE, found |-> FALSE]
    IN  IF named /\ ci.t # "obj" THEN Raised(FALSE)
        ELSE IF has.exc THEN Raised(FALSE)
        ELSE IF ~has.found
             THEN Returned(IF Truthy(ci1) THEN ci1 ELSE JObj(EmptyMap), FALSE)
        ELSE IF ci1.t # "obj" THEN Raised(FALSE)
        ELSE LET name == ci1.m["name"]
             IN  IF Truthy(name) /\ name.t # "str" THEN Raised(FALSE)
                 ELSE Returned(JObj(SetKey(ci1.m, "name",
                                   wipe_if_not_in_source(name, txt))), FALSE)

\* steps 2 to 4 of the contact_info block, given what the extractor returned
MergeName(ci, segs, txt) ==
    LET candidate_name == Get(segs.m, "candidate_name_text", JStr(<<>>))
        named == Truthy(candidate_name)
        ci1 == IF named /\ ci.t = "obj"
               THEN JObj(SetKey(ci.m, "name", candidate_name))
               ELSE ci
        has == IF Truthy(ci1) THEN HasName(ci1)
               ELSE [exc |-> FALSE, found |-> FALSE]
    IN  IF named /\ ci.t # "obj" THEN Raised(FALSE)
        ELSE IF has.exc THEN Raised(FALSE)
        ELSE IF ~has.found
             THEN Returned(IF Truthy(ci1) THEN ci1 ELSE JObj(EmptyMap), FALSE)
        ELSE IF ci1.t # "obj" THEN Raised(FALSE)
        ELSE LET name == ci1.m["name"]
             IN  IF Truthy(name) /\ name.t # "str" THEN Raised(FALSE)
                 ELSE Returned(JObj(SetKey(ci1.m, "name",
                                   wipe_if_not_in_source(name, txt))), FALSE)

\* the extractor call of the contact_info block
ContactChunk(segs, resp) ==
    IF segs.t # "obj" THEN Raised(FALSE)
    ELSE parse_contact_info_chunk(
             Get(segs.m, "contact_info_section", JStr(<<>>)), resp)

\* the try body of the contact_info block
ContactBody(segs, txt, resp) ==
    LET c == ContactChunk(segs, resp)
    IN  IF c.exc THEN c
        ELSE LET m == MergeName(c.val, segs, txt)
             IN  [val |-> m.val, called |-> c.called, exc |-> m.exc,
                  fell |-> c.fell]

\* a string of v holds a lone surrogate (json.loads makes one of the escape
\* \ud800, json.dumps(ensure_ascii=False) writes it out as it is)
RECURSIVE HasSurrogate(_)
HasSurrogate(v) ==
    CASE v.t = "str" -> \E i \in 1..Len(v.s) : v.s[i] = "surrogate"
      [] v.t = "list" -> \E i \in 1..Len(v.items) : HasSurrogate(v.items[i])
      [] v.t = "obj" -> \E k \in DOMAIN v.m : HasSurrogate(v.m[k])
      [] OTHER -> FALSE

NoFile == [t |-> "nofile"]

\* a file that was opened for writing and got no content
EmptyFile == [t |-> "empty"]

\* out_path.write_text(json.dumps(v, indent=2, ensure_ascii=False),
\* encoding="utf-8"): the utf-8 codec raises UnicodeEncodeError on a lone
\* surrogate, after the file was opened
write_text(v) ==
    IF HasSurrogate(v) THEN [exc |-> TRUE, file |-> EmptyFile]
    ELSE [exc |-> FALSE, file |-> v]

\* the value the completeness pass gives a missing required field
RequiredDefault(field) ==
    CASE field = "contact_info" -> JObj(EmptyMap)
      [] field = "skills" -> EmptySkills
      [] OTHER -> JList(<<>>)

\* for field in RESUME_SCHEMA["required"]: if field not in parsed_data: ...
RECURSIVE EnsureRequired(_, _)
EnsureRequired(pd, fields) ==
    IF fields = <<>> THEN pd
    ELSE LET f == Head(fields)
         IN  EnsureRequired(IF f \in DOMAIN pd THEN pd
                            ELSE StoreField(pd, f, RequiredDefault(f)),
                            Tail(fields))


(***************************************************************************)
(* generate_layout_plan and generate_html (planning step)                  *)
(***************************************************************************)
Block(name) == JObj([component |-> JStr(<<name>>), data_key |-> JStr(<<name>>)])

\* the fallback plan of generate_layout_plan
DefaultPlan ==
    JObj([pages |-> JList(<<
        JObj([page |-> JNum(1),
              content |-> JList(<<Block("contact_info"), Block("summary"),
                                  Block("work_experience"), Block("education"),
                                  Block("skills")>>)])>>)])

\* a plausible slip: objects are counted by their keys as lists are by their
\* entries
content_summary_sized(resume_data) ==
    [key \in DOMAIN resume_data.m |->
        LET value == resume_data.m[key]
        IN  IF value.t = "list" THEN Len(value.items)
            ELSE IF value.t = "obj" THEN Cardinality(DOMAIN value.m)
            ELSE 1]

\* {key: len(value) if isinstance(value, list) else 1
\*  for key, value in resume_data.items()}
content_summary(resume_data) ==
    [key \in DOMAIN resume_data.m |->
        LET value == resume_data.m[key]
        IN  IF value.t = "list" THEN Len(value.items) ELSE 1]

\* a plausible slip: the fallback is a plan without pages
generate_layout_plan_no_pages(resume_data, resp) ==
    LET r == LoadResponse(resp)
    IN  IF resume_data.t # "obj" THEN Raised(FALSE)
        ELSE IF r.ok THEN Returned(r.val, TRUE)
        ELSE FellBack(JObj([pages |-> JList(<<>>)]), TRUE)

\* generate_layout_plan: the parsed response, or the default plan on any
\* exception
generate_layout_plan(resume_data, resp) ==
    LET r == LoadResponse(resp)
    IN  IF resume_data.t # "obj" THEN Raised(FALSE)    \* resume_data.items()
        ELSE IF r.ok THEN Returned(r.val, TRUE)
        ELSE FellBack(DefaultPlan, TRUE)

(***************************************************************************)
(* Inputs                                                                  *)
(***************************************************************************)
\* source files: a missing one, an unsupported one, and a readable one
Sources ==
    {[exists |-> FALSE, suffix |-> ".txt", content |-> <<>>],
     [exists |-> FALSE, suffix |-> ".md", content |-> <<>>],
     [exists |-> TRUE, suffix |-> ".md", content |-> <<"a">>],
     [exists |-> TRUE, suffix |-> ".txt", content |-> <<"bullet", "A", " ">>]}

\* values of candidate_name_text other than ""
NameValues ==
    {JStr(<<"A">>), JStr(<<"b">>), JStr(<<"eacute">>), JStr(<<"surrogate">>),
     JNum(5)}

\* values of a section span other than ""
SpanValues == {JStr(<<" ">>), JStr(<<"x">>)}

\* the segmentation dicts with all ten keys of which those in K are not ""
FilledOn(K) ==
    {[k \in SEGMENTATION_KEYS |-> IF k \in K THEN f[k] ELSE JStr(<<>>)] :
        f \in {g \in [K -> NameValues \cup SpanValues] :
                 \A k \in K : IF k = "candidate_name_text"
                              THEN g[k] \in NameValues
                              ELSE g[k] \in SpanValues}}

\* the segmentation dicts with all ten keys, all "" but one that is null
OneNull ==
    {[k \in SEGMENTATION_KEYS |-> IF k = n THEN JNull ELSE JStr(<<>>)] :
        n \in SEGMENTATION_KEYS}

\* JSON values the segmentation call may deliver: values that are no dict,
\* the dict without keys, and dicts with all ten keys
SegmentationValues ==
    {JNull, JList(<<>>), JObj(EmptyMap)}
        \cup {JObj(d) : d \in OneNull}
        \cup {JObj(d) : d \in UNION {FilledOn(K) :
                  K \in {S \in SUBSET SEGMENTATION_KEYS :
                            Cardinality(S) <= MaxFilled}}}

Entry == JObj([title |-> JStr(<<"x">>)])

Email == JStr(<<"x", "@", "y">>)

\* JSON values an extraction call may deliver, per section
SectionValues(sec) ==
    CASE sec = "contact_info" ->
            {JNull, JObj(EmptyMap), JList(<<Entry>>), JStr(<<"x">>), JNum(5),
             JObj([email |-> Email])}
                \cup {JObj([name |-> n, email |-> Email]) :
                        n \in {JNull, JStr(<<"a">>), JStr(<<"b">>),
                               JStr(<<"eacute">>), JNum(5)}}
      [] sec = "skills" ->
            {JNull, JList(<<>>), JObj([technical |-> JList(<<JStr(<<"x">>)>>)])}
      [] OTHER -> {JNull, JList(<<Entry>>), JObj(EmptyMap)}

SectionResponses(sec) ==
    IF sec = "summary"
    THEN {ErrorResponse, NoTextResponse, Garbage,
          TextResponse(<<"\n", "G", " ">>, JNull)}
    ELSE ResponsesOver(SectionValues(sec))

SomePlan ==
    JObj([pages |-> JList(<<
        JObj([page |-> JNum(1), content |-> JList(<<Block("skills")>>)])>>)])

LayoutResponses == ResponsesOver({JNull, SomePlan})

CallKinds == SectionNames \cup {"segmentation", "layout", "ui"}

(***************************************************************************)
(* The run: parse_resume, then generate_html                               *)
(***************************************************************************)
\* no session of the app
NoOrigin == [t |-> "none"]

PlannerIdle ==
    /\ callers = <<>>
    /\ cache_origin = NoOrigin

FunctionIdle ==
    /\ fn = "idle"
    /\ input = <<>>
    /\ output = <<>>
    /\ output2 = <<>>

Init ==
    /\ pc = "start"
    /\ src \in Sources
    /\ text = <<>>
    /\ segments = JNull
    /\ parsed_data = EmptyMap
    /\ returned = EmptyMap
    /\ failed = {}
    /\ calls = [k \in CallKinds |-> 0]
    /\ record_file = NoFile
    /\ layout_file = NoFile
    /\ layout_plan = JNull
    /\ FunctionIdle
    /\ PlannerIdle

\* text = preclean(read_file_content(src_path))
ReadSource ==
    /\ pc = "start"
    /\ LET f == read_file_content(src)
       IN  IF f.exc = "none"
           THEN /\ text' = preclean(f.content)
                /\ pc' = "segment"
           ELSE /\ pc' = f.exc
                /\ UNCHANGED text
    /\ UNCHANGED <<src, segments, parsed_data, returned, failed, calls,
                   record_file, layout_file, layout_plan,
                   fn, input, output, output2,
                   callers, cache_origin>>

\* segments = segment_resume_text(text)
Segment ==
    /\ pc = "segment"
    /\ \E resp \in ResponsesOver(SegmentationValues) :
          LET r == segment_resume_text(resp)
          IN  /\ segments' = r.val
              /\ failed' = IF r.fell THEN failed \cup {"segmentation"}
                           ELSE failed
    /\ calls' = [calls EXCEPT !["segmentation"] = @ + 1]
    /\ pc' = "contact_info"
    /\ UNCHANGED <<src, text, parsed_data, returned, record_file,
                   layout_file, layout_plan, fn, input, output, output2,
                   callers, cache_origin>>

\* the extractor of sec gets as far as its inference call (whatever the
\* response, the call is issued or not)
NeedsCall(sec) == SectionBody(sec, segments, ErrorResponse).called

\* a plausible slip: a call that failed is issued a second time before the
\* zero-value is stored
TryBlockRetrying(sec, next, chunk, body) ==
    LET r == TryExcept(body, ZeroValue(sec))
    IN  /\ parsed_data' = StoreField(parsed_data, sec, r.val)
        /\ returned' = IF chunk.exc THEN returned
                       ELSE SetKey(returned, sec, chunk.val)
        /\ failed' = IF r.fell THEN failed \cup {sec} ELSE failed
        /\ calls' = IF r.called
                    THEN [calls EXCEPT ![sec] = IF r.fell THEN @ + 2 ELSE @ + 1]
                    ELSE calls
        /\ pc' = next
        /\ UNCHANGED <<src, text, segments, record_file, layout_file,
                       layout_plan, fn, input, output, output2,
                       callers, cache_origin>>

\* one try block of parse_resume: chunk is what the extractor did (exc when
\* it was never reached or raised), body is what the try body did
TryBlock(sec, next, chunk, body) ==
    LET r == TryExcept(body, ZeroValue(sec))
    IN  /\ parsed_data' = StoreField(parsed_data, sec, r.val)
        /\ returned' = IF chunk.exc THEN returned
                       ELSE SetKey(returned, sec, chunk.val)
        /\ failed' = IF r.fell THEN failed \cup {sec} ELSE failed
        /\ calls' = IF r.called THEN [calls EXCEPT ![sec] = @ + 1] ELSE calls
        /\ pc' = next
        /\ UNCHANGED <<src, text, segments, record_file, layout_file,
                       layout_plan, fn, input, output, output2,
                   callers, cache_origin>>

\* the responses the extractor of sec can meet: none when it issues no call
Meets(sec) == IF NeedsCall(sec) THEN SectionResponses(sec) ELSE {ErrorResponse}

ContactInfo ==
    /\ pc = "contact_info"
    /\ \E resp \in Meets("contact_info") :
          TryBlock("contact_info", "work_experience",
                   ContactChunk(segments, resp),
                   ContactBody(segments, text, resp))

\* a try block of a section other than contact_info
Section(sec, next) ==
    /\ pc = sec
    /\ \E resp \in Meets(sec) :
          TryBlock(sec, next, SectionBody(sec, segments, resp),
                   SectionBody(sec, segments, resp))

WorkExperience == Section("work_experience", "education")

Education == Section("education", "skills")

Skills == Section("skills", "summary")

Summary == Section("summary", "certifications")

Certifications == Section("certifications", "projects")

Projects == Section("projects", "languages")

Languages == Section("languages", "awards")

Awards == Section("awards", "complete")

\* a plausible slip: the record is written before the last extractor has run
CompleteEarly ==
    /\ pc \in {"awards", "complete"}
    /\ parsed_data' = EnsureRequired(parsed_data, RESUME_SCHEMA_required)
    /\ LET w == write_text(JObj(parsed_data'))
       IN  /\ record_file' = w.file
           /\ pc' = IF w.exc THEN "raised" ELSE "parsed"
    /\ UNCHANGED <<src, text, segments, returned, failed, calls, layout_file,
                   layout_plan, fn, input, output, output2,
                   callers, cache_origin>>

\* the completeness pass and the write of <stem>.parsed.json
Complete ==
    /\ pc = "complete"
    /\ parsed_data' = EnsureRequired(parsed_data, RESUME_SCHEMA_required)
    /\ LET w == write_text(JObj(parsed_data'))
       IN  /\ record_file' = w.file
           /\ pc' = IF w.exc THEN "raised" ELSE "parsed"
    /\ UNCHANGED <<src, text, segments, returned, failed, calls, layout_file,
                   layout_plan, fn, input, output, output2,
                   callers, cache_origin>>

\* generate_html up to template.render: load the cached plan unless forced,
\* else generate one and write it to <stem>.layout.json.  calls["layout"] and
\* the mark "layout" in failed are those of the latest invocation.
GenerateHtml ==
    /\ pc \in {"parsed", "planned"}
    /\ record_file # NoFile
    /\ \E force_regenerate \in BOOLEAN :
          LET cached == IF ~force_regenerate /\ layout_file # NoFile
                        THEN layout_file ELSE JNull
          IN  IF cached # JNull
              THEN /\ layout_plan' = cached
                   /\ calls' = [calls EXCEPT !["layout"] = 0]
                   /\ failed' = failed \ {"layout"}
                   /\ pc' = "planned"
                   /\ UNCHANGED layout_file
              ELSE \E resp \in LayoutResponses :
                      LET g == generate_layout_plan(record_file, resp)
                      IN  IF g.exc
                          THEN /\ pc' = "raised"
                               /\ UNCHANGED <<layout_plan, layout_file, calls,
                                              failed>>
                          ELSE /\ layout_plan' = g.val
                               /\ layout_file' = g.val
                               /\ calls' = [calls EXCEPT !["layout"] = 1]
                               /\ failed' = IF g.fell
                                            THEN failed \cup {"layout"}
                                            ELSE failed \ {"layout"}
                               /\ pc' = "planned"
    /\ UNCHANGED <<src, text, segments, parsed_data, returned, record_file,
                   fn, input, output, output2,
                   callers, cache_origin>>

(***************************************************************************)
(* parse_resume (parser_ui.py): one call for the whole record              *)
(***************************************************************************)
\* JSON values the single parsing call may deliver
UiValues ==
    {JNull, JList(<<>>), JObj(EmptyMap), JObj([summary |-> JStr(<<"x">>)]),
     JObj([summary |-> JStr(<<"surrogate">>)])}
        \cup {JObj([contact_info |-> c]) : c \in SectionValues("contact_info")}

\* parser_ui.parse_resume after the text is read: the record it writes, or
\* exc when an exception leaves it
parse_resume_ui(txt, resp) ==
    LET r == LoadResponse(resp)
        abort == [exc |-> TRUE, record |-> JNull]
    IN  IF ~r.ok THEN abort
        ELSE IF r.val.t # "obj" THEN abort
        ELSE LET got == Get(r.val.m, "contact_info", JObj(EmptyMap))
                 ci == IF Truthy(got) THEN got ELSE JObj(EmptyMap)
             IN  IF ci.t # "obj" THEN abort
                 ELSE LET name == Get(ci.m, "name", JNull)
                      IN  IF Truthy(name) /\ name.t # "str" THEN abort
                          ELSE [exc |-> FALSE,
                                record |-> JObj(SetKey(r.val.m, "contact_info",
                                    JObj(SetKey(ci.m, "name",
                                        wipe_if_not_in_source(name, txt)))))]

UiParseResume ==
    /\ pc = "start"
    /\ LET f == read_file_content(src)
       IN  IF f.exc # "none"
           THEN /\ pc' = f.exc
                /\ UNCHANGED <<text, calls, record_file>>
           ELSE /\ text' = preclean(f.content)
                /\ calls' = [calls EXCEPT !["ui"] = @ + 1]
                /\ \E resp \in ResponsesOver(UiValues) :
                      LET u == parse_resume_ui(text', resp)
                      IN  IF u.exc
                          THEN /\ pc' = "ui_raised"
                               /\ UNCHANGED record_file
                          ELSE LET w == write_text(u.record)
                               IN  /\ record_file' = w.file
                                   /\ pc' = IF w.exc THEN "ui_raised"
                                             ELSE "ui_parsed"
    /\ UNCHANGED <<src, segments, parsed_data, returned, failed, layout_file,
                   layout_plan, fn, input, output, output2,
                   callers, cache_origin>>

Next ==
    \/ ReadSource
    \/ Segment
    \/ ContactInfo
    \/ WorkExperience
    \/ Education
    \/ Skills
    \/ Summary
    \/ Certifications
    \/ Projects
    \/ Languages
    \/ Awards
    \/ Complete
    \/ GenerateHtml
    \/ UiParseResume

Spec == Init /\ [][Next]_vars

(***************************************************************************)
(* Runs that apply one pure function to every input within the bounds      *)
(***************************************************************************)
PipelineIdle ==
    /\ pc = "idle"
    /\ src = [exists |-> FALSE, suffix |-> ".txt", content |-> <<>>]
    /\ text = <<>>
    /\ segments = JNull
    /\ parsed_data = EmptyMap
    /\ returned = EmptyMap
    /\ failed = {}
    /\ calls = [k \in CallKinds |-> 0]
    /\ record_file = NoFile
    /\ layout_file = NoFile
    /\ layout_plan = JNull

PipelineUnchanged ==
    UNCHANGED <<pc, src, text, segments, parsed_data, returned, failed, calls,
                record_file, layout_file, layout_plan, callers, cache_origin>>

\* characters of raw text: the three glyphs of line 26, a curly quote,
\* whitespace, a letter
RawChars == {"bullet", "blackcircle", "endash", "ldquo", " ", "\t", "\n", "a"}

InitPreclean ==
    /\ PipelineIdle
    /\ PlannerIdle
    /\ fn = "preclean"
    /\ input \in StringsUpTo(RawChars, MaxRawLen)
    /\ output = <<>>
    /\ output2 = <<>>

Normalize ==
    /\ fn = "preclean"
    /\ output' = preclean(input)
    /\ fn' = "once"
    /\ UNCHANGED <<input, output2>>
    /\ PipelineUnchanged

NormalizeAgain ==
    /\ fn = "once"
    /\ output2' = preclean(output)
    /\ fn' = "twice"
    /\ UNCHANGED <<input, output>>
    /\ PipelineUnchanged

NextPreclean == Normalize \/ NormalizeAgain

SpecPreclean == InitPreclean /\ [][NextPreclean]_vars

\* characters of names and sources: ASCII letters in both cases, a letter
\* outside a-z, and a character that is no letter
NameChars == {"a", "A", "b", "eacute", "1"}

Candidates == {JNull} \cup {JStr(s) : s \in StringsUpTo(NameChars, MaxNameLen)}

InitWipe ==
    /\ PipelineIdle
    /\ PlannerIdle
    /\ fn = "wipe"
    /\ input \in [value : Candidates,
                  source : StringsUpTo(NameChars, MaxSourceLen)]
    /\ output = JNull
    /\ output2 = <<>>

Validate ==
    /\ fn = "wipe"
    /\ output' = wipe_if_not_in_source(input.value, input.source)
    /\ fn' = "wiped"
    /\ UNCHANGED <<input, output2>>
    /\ PipelineUnchanged

NextWipe == Validate

SpecWipe == InitWipe /\ [][NextWipe]_vars



(***************************************************************************)
(* Sessions of the app: parse_resume on an upload, generate_html step by   *)
(* step as far as template.render, and the clean-up of the temporary files *)
(***************************************************************************)
\* template files the user can select
Styles == {"classic.html", "modern.html"}

\* contents of the documents uploaded under one file name
Documents == {<<"a">>, <<"b">>}

\* the record parse_resume persists for a document, told apart by its summary
RecordOf(doc) ==
    JObj([contact_info |-> JObj(EmptyMap),
          work_experience |-> JList(<<>>),
          education |-> JList(<<>>),
          skills |-> EmptySkills,
          summary |-> JStr(doc),
          certifications |-> JList(<<>>),
          projects |-> JList(<<>>),
          languages |-> JList(<<>>),
          awards |-> JList(<<>>)])

\* a layout file that holds a part of a plan, or of two plans written over
\* each other
PartialFile == [t |-> "partial"]

\* json.load raises JSONDecodeError on such a file
Unparseable(file) == file \in {EmptyFile, PartialFile}

\* who runs a session: the documents uploaded, the templates selected and
\* the values of force_regenerate passed.  generate_html is called by the app,
\* which leaves force_regenerate at its default, or from the command line of
\* generator_ui_layout.py, which has the flag --force-regen.
CommandLineUser ==
    [documents |-> Documents, styles |-> Styles, flags |-> BOOLEAN]

AppUser ==
    [documents |-> {<<"a">>}, styles |-> {"classic.html"}, flags |-> {FALSE}]

\* the locals of generate_html before it is called; saw, called, fell, hit,
\* origin and overlapped record what the latest call met and did
IdleCaller(user) ==
    [pc |-> "idle", user |-> user, force_regenerate |-> FALSE,
     template_name |-> "", resume_data |-> JNull, layout_plan |-> JNull,
     saw |-> NoFile, called |-> FALSE, fell |-> FALSE, hit |-> FALSE,
     origin |-> NoOrigin, overlapped |-> FALSE]

\* generate_html is not running in the session
Resting == {"idle", "rendered", "FileNotFoundError", "JSONDecodeError"}

\* generate_html has the layout file open for writing
Writing == {"dump", "close"}

\* a plausible slip: an existing layout file is loaded even when forced
UseCacheWhenForced(force_regenerate, file) == file # NoFile

\* if not force_regenerate and layout_plan_path.exists()
UseCache(force_regenerate, file) == ~force_regenerate /\ file # NoFile

\* a plausible slip: a cached default plan is taken for no plan
MustGenerateOnDefault(plan) == plan \in {JNull, DefaultPlan}

\* if layout_plan is None
MustGenerate(plan) == plan = JNull

\* the other sessions that have the layout file open are marked: what they
\* and session p write lands in one file
Overlap(p, cs) ==
    [q \in DOMAIN cs |->
        IF q # p /\ cs[q].pc \in Writing
        THEN [cs[q] EXCEPT !.overlapped = TRUE]
        ELSE cs[q]]

SessionUnchanged ==
    UNCHANGED <<pc, text, segments, parsed_data, returned, failed, calls,
                layout_plan, fn, input, output, output2>>

\* the app writes the upload to temp_files and calls parse_resume on it
ParseUploaded(p) ==
    /\ callers[p].pc \in Resting
    /\ \E doc \in callers[p].user.documents :
          /\ src' = [exists |-> TRUE, suffix |-> ".txt", content |-> doc]
          /\ record_file' = RecordOf(doc)
    /\ callers' = [callers EXCEPT ![p] = IdleCaller(@.user)]
    /\ UNCHANGED <<layout_file, cache_origin>>
    /\ SessionUnchanged

\* generate_html up to the test for a cached plan
Begin(p) ==
    /\ callers[p].pc \in Resting
    /\ IF record_file = NoFile
       THEN callers' = [callers EXCEPT ![p] =
                           [IdleCaller(@.user) EXCEPT
                               !.pc = "FileNotFoundError"]]
       ELSE \E style \in callers[p].user.styles,
               force \in callers[p].user.flags :
               callers' = [callers EXCEPT ![p] =
                   [IdleCaller(@.user) EXCEPT
                       !.pc = IF UseCache(force, layout_file)
                              THEN "load" ELSE "generate",
                       !.force_regenerate = force,
                       !.template_name = style,
                       !.resume_data = record_file,
                       !.saw = layout_file]]
    /\ UNCHANGED <<src, record_file, layout_file, cache_origin>>
    /\ SessionUnchanged

\* layout_plan = json.load(f) on the cached plan, and the test for None
Load(p) ==
    /\ callers[p].pc = "load"
    /\ callers' = [callers EXCEPT ![p] =
          IF Unparseable(layout_file)
          THEN [@ EXCEPT !.pc = "JSONDecodeError"]
          ELSE IF MustGenerate(layout_file)
          THEN [@ EXCEPT !.pc = "generate", !.layout_plan = layout_file]
          ELSE [@ EXCEPT !.pc = "rendered", !.layout_plan = layout_file,
                         !.hit = TRUE, !.origin = cache_origin]]
    /\ UNCHANGED <<src, record_file, layout_file, cache_origin>>
    /\ SessionUnchanged

\* layout_plan = generate_layout_plan(resume_data, template_name)
Generate(p) ==
    /\ callers[p].pc = "generate"
    /\ \E resp \in LayoutResponses :
          LET g == generate_layout_plan(callers[p].resume_data, resp)
          IN  callers' = [callers EXCEPT ![p] =
                  [@ EXCEPT !.pc = "open",
                            !.layout_plan = g.val,
                            !.called = TRUE,
                            !.fell = g.fell,
                            !.origin = [t |-> "planned",
                                        record |-> callers[p].resume_data,
                                        style |-> callers[p].template_name]]]
    /\ UNCHANGED <<src, record_file, layout_file, cache_origin>>
    /\ SessionUnchanged

\* open(layout_plan_path, 'w'): the file is there and empty
OpenCache(p) ==
    /\ callers[p].pc = "open"
    /\ layout_file' = EmptyFile
    /\ cache_origin' = NoOrigin
    /\ callers' = [Overlap(p, callers) EXCEPT ![p] =
          [@ EXCEPT !.pc = "dump",
                    !.overlapped = \E q \in DOMAIN callers \ {p} :
                                       callers[q].pc \in Writing]]
    /\ UNCHANGED <<src, record_file>>
    /\ SessionUnchanged

\* json.dump(layout_plan, f, indent=2): the text goes to a buffer, of which a
\* part may reach the file before the dump is complete
Dump(p) ==
    /\ callers[p].pc = "dump"
    /\ \E flushed \in BOOLEAN :
          /\ layout_file' = IF flushed THEN PartialFile ELSE layout_file
          /\ cache_origin' = IF flushed THEN NoOrigin ELSE cache_origin
    /\ callers' = [callers EXCEPT ![p] = [@ EXCEPT !.pc = "close"]]
    /\ UNCHANGED <<src, record_file>>
    /\ SessionUnchanged

\* a plausible slip: the plan is rendered while its text is still in the
\* buffer of the open file
CloseCacheUnwritten(p) ==
    /\ callers[p].pc = "close"
    /\ callers' = [callers EXCEPT ![p] = [@ EXCEPT !.pc = "rendered"]]
    /\ UNCHANGED <<src, record_file, layout_file, cache_origin>>
    /\ SessionUnchanged

\* the end of the with block: the rest of the text reaches the file.  When
\* another session wrote to the file since this one opened it, the file holds
\* this plan or a mix of the two texts.
CloseCache(p) ==
    /\ callers[p].pc = "close"
    /\ \E mixed \in {FALSE, callers[p].overlapped} :
          /\ layout_file' = IF mixed THEN PartialFile
                            ELSE callers[p].layout_plan
          /\ cache_origin' = IF mixed THEN NoOrigin ELSE callers[p].origin
    /\ callers' = [Overlap(p, callers) EXCEPT ![p] =
                      [@ EXCEPT !.pc = "rendered"]]
    /\ UNCHANGED <<src, record_file>>
    /\ SessionUnchanged

\* app_playwright.py: os.remove of the upload, the record and the html; the
\* layout file stays
CleanUp(p) ==
    /\ callers[p].pc = "rendered"
    /\ src' = [src EXCEPT !.exists = FALSE]
    /\ record_file' = NoFile
    /\ callers' = [callers EXCEPT ![p] = IdleCaller(@.user)]
    /\ UNCHANGED <<layout_file, cache_origin>>
    /\ SessionUnchanged

NextSession ==
    \/ \E p \in DOMAIN callers : ParseUploaded(p)
    \/ \E p \in DOMAIN callers : Begin(p)
    \/ \E p \in DOMAIN callers : Load(p)
    \/ \E p \in DOMAIN callers : Generate(p)
    \/ \E p \in DOMAIN callers : OpenCache(p)
    \/ \E p \in DOMAIN callers : Dump(p)
    \/ \E p \in DOMAIN callers : CloseCache(p)
    \/ \E p \in DOMAIN callers : CleanUp(p)

InitSession(users) ==
    /\ PipelineIdle
    /\ FunctionIdle
    /\ callers = [p \in DOMAIN users |-> IdleCaller(users[p])]
    /\ cache_origin = NoOrigin

\* one session at a time
InitPlan == InitSession([s1 |-> CommandLineUser])

SpecPlan == InitPlan /\ [][NextSession]_vars

\* two sessions of the app whose uploads have the same file name
InitRace == InitSession([s1 |-> AppUser, s2 |-> AppUser])

SpecRace == InitRace /\ [][NextSession]_vars

\* segment_resume_text and generate_layout_plan, each applied to every
\* response the service can give to its request
InitFence ==
    /\ PipelineIdle
    /\ PlannerIdle
    /\ \/ /\ fn = "segment_resume_text"
          /\ input \in ResponsesOver(SegmentationValues)
       \/ /\ fn = "generate_layout_plan"
          /\ input \in LayoutResponses
    /\ output = JNull
    /\ output2 = <<>>

SegmentResponse ==
    /\ fn = "segment_resume_text"
    /\ output' = segment_resume_text(input)
    /\ fn' = "segmented"
    /\ UNCHANGED <<input, output2>>
    /\ PipelineUnchanged

LayoutResponse ==
    /\ fn = "generate_layout_plan"
    /\ output' = generate_layout_plan(RecordOf(<<"a">>), input)
    /\ fn' = "planned"
    /\ UNCHANGED <<input, output2>>
    /\ PipelineUnchanged

NextFence == SegmentResponse \/ LayoutResponse

SpecFence == InitFence /\ [][NextFence]_vars

\* records a layout request can be made for: some of three top-level keys,
\* each with a value of any JSON type, lists of up to MaxEntries entries
MaxEntries == 2

SummaryKeys == {"summary", "skills", "work_experience"}

EntryLists ==
    {JList([i \in 1..n |-> Entry]) : n \in 0..MaxEntries}

TopLevelValues ==
    {JNull, JStr(<<"x">>), JObj(EmptyMap), JObj([technical |-> JList(<<>>)])}
        \cup EntryLists

Records ==
    UNION {{JObj(m) : m \in [K -> TopLevelValues]} : K \in SUBSET SummaryKeys}

InitSummary ==
    /\ PipelineIdle
    /\ PlannerIdle
    /\ fn = "content_summary"
    /\ input \in Records
    /\ output = JNull
    /\ output2 = <<>>

Summarize ==
    /\ fn = "content_summary"
    /\ output' = content_summary(input)
    /\ fn' = "summarized"
    /\ UNCHANGED <<input, output2>>
    /\ PipelineUnchanged

NextSummary == Summarize

SpecSummary == InitSummary /\ [][NextSummary]_vars

\* A path is a directory and a file name; the name is its first component
\* and the suffixes that follow it, each with its dot: resume.v2.txt is
\* <<"resume", ".v2", ".txt">>.
\* a plausible slip: the new suffix is put after the old one
with_suffix_appended(path, suffix) ==
    [path EXCEPT !.name = @ \o suffix]

\* Path.with_suffix: the last suffix of the name, if it has one, is replaced
with_suffix(path, suffix) ==
    [path EXCEPT !.name = IF Len(@) > 1
                          THEN SubSeq(@, 1, Len(@) - 1) \o suffix
                          ELSE @ \o suffix]

\* out_path = src_path.with_suffix(".parsed.json")
out_path(src_path) == with_suffix(src_path, <<".parsed", ".json">>)

\* parse_resume is called at most MaxParses times
MaxParses == 2

\* the source documents parse_resume is called on: readable files in two
\* directories
SourceNames ==
    {<<"resume", ".txt">>, <<"resume", ".pdf">>, <<"resume", ".v2", ".txt">>,
     <<"cv", ".docx">>}

SourcePaths == [dir : {"temp_files", "inbox"}, name : SourceNames]

\* input is the calls of parse_resume so far with what each returned, output
\* the record files they have left, by path
InitPaths ==
    /\ PipelineIdle
    /\ PlannerIdle
    /\ fn = "parse_resume"
    /\ input = <<>>
    /\ output = <<>>
    /\ output2 = <<>>

\* one call of parse_resume on a readable source that holds document doc
ParseSource ==
    /\ fn = "parse_resume"
    /\ Len(input) < MaxParses
    /\ \E src_path \in SourcePaths, doc \in Documents :
          LET file == [exists |-> TRUE,
                       suffix |-> src_path.name[Len(src_path.name)],
                       content |-> doc]
              out == out_path(src_path)
          IN  /\ read_file_content(file).exc = "none"
              /\ input' = Append(input, [src_path |-> src_path, doc |-> doc,
                                         returned |-> out])
              /\ output' = [q \in DOMAIN output \cup {out} |->
                               IF q = out THEN RecordOf(doc) ELSE output[q]]
    /\ UNCHANGED <<fn, output2>>
    /\ PipelineUnchanged

NextPaths == ParseSource

SpecPaths == InitPaths /\ [][NextPaths]_vars


(***************************************************************************)
(* Properties                                                              *)
(***************************************************************************)
\* parser.parse_resume has written the record
Persisted == pc \in {"parsed", "planned"}

\* every try block of parse_resume has run
AllRan == pc \in {"complete", "parsed", "planned"}

\* record["contact_info"].get("name") of a persisted record, None when the
\* record has no contact_info object
PersistedName ==
    LET ci == Get(record_file.m, "contact_info", JNull)
    IN  IF ci.t = "obj" THEN Get(ci.m, "name", JNull) ELSE JNull

\* C1: the record parse_resume persists contains every required top-level
\* field (contact_info, work_experience, education, skills, projects),
\* whatever the segmentation and extractor outcomes were.
C1_RequiredPresent ==
    Persisted =>
        /\ record_file.t = "obj"
        /\ {"contact_info", "work_experience", "education", "skills",
            "projects"} \subseteq DOMAIN record_file.m

\* C1 witness: a record was persisted after every extractor failed
C1_AllFailed == Persisted /\ SectionNames \subseteq failed

\* C2: in every persisted record each top-level field is well-typed and not
\* null: contact_info and skills objects, summary a string, the others
\* arrays, for every response an extractor can get.
C2_WellTyped ==
    Persisted =>
        \A f \in DOMAIN record_file.m :
            record_file.m[f].t =
                (CASE f \in {"contact_info", "skills"} -> "obj"
                   [] f = "summary" -> "str"
                   [] OTHER -> "list")

\* C3: once the text is read no stage raises: parse_resume persists a record
\* and the planning step of generate_html hands over a plan, for every
\* outcome of every inference call.
C3_NoAbort ==
    /\ pc # "raised"
    /\ Persisted => record_file.t = "obj"
    /\ pc = "planned" => layout_file # NoFile

\* C4: when the segmentation call fails, segment_resume_text returns all ten
\* fields as "", no extractor issues an inference call, and the persisted
\* record is the all-zero-value record.
C4_SegmentationFallback ==
    "segmentation" \in failed =>
        /\ segments = JObj([k \in {"candidate_name_text",
                "contact_info_section", "summary_section",
                "work_experience_section", "education_section",
                "skills_section", "certifications_section",
                "projects_section", "languages_section", "awards_section"}
                    |-> JStr(<<>>)])
        /\ \A sec \in SectionNames : calls[sec] = 0
        /\ Persisted =>
              record_file = JObj(
                  [contact_info |-> JObj(EmptyMap),
                   work_experience |-> JList(<<>>),
                   education |-> JList(<<>>),
                   skills |-> JObj([clinical |-> JList(<<>>),
                                    technical |-> JList(<<>>),
                                    soft |-> JList(<<>>),
                                    tools |-> JList(<<>>)]),
                   summary |-> JStr(<<>>),
                   certifications |-> JList(<<>>),
                   projects |-> JList(<<>>),
                   languages |-> JList(<<>>),
                   awards |-> JList(<<>>)])

\* C4 witness: a record was persisted after the segmentation call failed
C4_FallbackPersisted == Persisted /\ "segmentation" \in failed

\* the span of sec is a string of nothing but whitespace
BlankSpan(sec) ==
    /\ segments.t = "obj"
    /\ SectionKey[sec] \in DOMAIN segments.m
    /\ LET span == segments.m[SectionKey[sec]]
       IN  /\ span.t = "str"
           /\ \A i \in 1..Len(span.s) : span.s[i] \in {" ", "\t", "\n"}

\* C5: an extractor given an empty or whitespace-only span returns the
\* zero-value of its section and issues no inference call.
C5_BlankSpanShortCircuits ==
    \A sec \in SectionNames :
        (sec \in DOMAIN parsed_data /\ BlankSpan(sec)) =>
            /\ sec \in DOMAIN returned
            /\ returned[sec] =
                  (CASE sec = "contact_info" -> JObj(EmptyMap)
                     [] sec = "skills" ->
                            JObj([clinical |-> JList(<<>>),
                                  technical |-> JList(<<>>),
                                  soft |-> JList(<<>>),
                                  tools |-> JList(<<>>)])
                     [] sec = "summary" -> JStr(<<>>)
                     [] OTHER -> JList(<<>>))
            /\ calls[sec] = 0

\* C5 witness: two extractors have run on spans that are whitespace, not ""
C5_WhitespaceSpans ==
    /\ AllRan
    /\ segments.t = "obj"
    /\ \E a, b \in SectionNames :
          /\ a # b
          /\ BlankSpan(a) /\ segments.m[SectionKey[a]].s # <<>>
          /\ BlankSpan(b) /\ segments.m[SectionKey[b]].s # <<>>

\* C6 as claimed: the failed sections hold their zero-value and every other
\* section holds what its extractor returned, contact_info included.
C6_AsClaimed ==
    AllRan =>
        \A sec \in SectionNames :
            /\ sec \in DOMAIN parsed_data
            /\ sec \in failed => parsed_data[sec] = ZeroValue(sec)
            /\ sec \notin failed =>
                  /\ sec \in DOMAIN returned
                  /\ parsed_data[sec] = returned[sec]

\* the name the contact_info block validates: the candidate name when one was
\* segmented, else the name the extractor returned
NameToValidate(base) ==
    LET cand == Get(segments.m, "candidate_name_text", JStr(<<>>))
    IN  IF Truthy(cand) THEN cand
        ELSE IF base.t = "obj" THEN Get(base.m, "name", JNull)
        ELSE JNull

\* C6 amended: every section other than contact_info holds its zero-value if
\* it failed and what its extractor returned otherwise.  contact_info is
\* built from what its extractor returned (the zero-value if it returned
\* nothing), the candidate name and the source text only: an object keeps
\* every key other than name, and the field is {} where the merge of the name
\* raises or the result is empty.
C6_Isolation ==
    AllRan =>
        /\ \A sec \in SectionNames \ {"contact_info"} :
              /\ sec \in DOMAIN parsed_data
              /\ sec \in failed => parsed_data[sec] = ZeroValue(sec)
              /\ sec \notin failed =>
                    /\ sec \in DOMAIN returned
                    /\ parsed_data[sec] = returned[sec]
        /\ "contact_info" \in DOMAIN parsed_data
        /\ LET ci == parsed_data["contact_info"]
               ran == "contact_info" \in DOMAIN returned
               base == IF ran THEN returned["contact_info"] ELSE JObj(EmptyMap)
               name == IF segments.t = "obj" THEN NameToValidate(base)
                       ELSE JNull
               named == segments.t = "obj" /\
                        Truthy(Get(segments.m, "candidate_name_text", JNull))
           IN  /\ ~ran => ci = JObj(EmptyMap)
               /\ (ran /\ base.t = "obj") =>
                     IF Truthy(name) /\ name.t # "str"
                     THEN ci = JObj(EmptyMap)
                     ELSE /\ ci.t = "obj"
                          /\ DOMAIN ci.m \ {"name"} = DOMAIN base.m \ {"name"}
                          /\ \A k \in DOMAIN base.m \ {"name"} :
                                ci.m[k] = base.m[k]
                          /\ ("name" \in DOMAIN ci.m) <=>
                                (named \/ "name" \in DOMAIN base.m)
               /\ (ran /\ base.t # "obj") =>
                     ci = (IF ~named /\ base.t \in {"list", "str"} /\ Truthy(base)
                           THEN base ELSE JObj(EmptyMap))

\* C6 witness: of two extractors that issued a call one failed and holds its
\* zero-value while the other holds the value it returned
C6_OneFailsOneKeeps ==
    /\ AllRan
    /\ \E a, b \in SectionNames \ {"contact_info"} :
          /\ a \in failed /\ calls[a] = 1
          /\ b \notin failed /\ calls[b] = 1
          /\ parsed_data[b] # ZeroValue(b)

\* s without its non-letter characters, in lower case ("eacute" is a letter)
ClaimLetters(s) ==
    LET low == [i \in 1..Len(s) |-> Lower(s[i])]
    IN  Pick(low, {i \in 1..Len(low) : low[i] \in {"a", "b", "eacute"}}, 1)

\* C7: in every persisted record contact_info.name is absent, null or empty,
\* or passes the validation against the source text; and when the segmenter
\* returns a candidate name whose letters do not occur in the source text,
\* the name is null.
C7_NameValidated ==
    (pc \in {"parsed", "planned", "ui_parsed"}) =>
        /\ Truthy(PersistedName) =>
              /\ PersistedName.t = "str"
              /\ wipe_if_not_in_source(PersistedName, text) = PersistedName
        /\ (Persisted /\ segments.t = "obj") =>
              LET cand == Get(segments.m, "candidate_name_text", JStr(<<>>))
              IN  (/\ cand.t = "str"
                   /\ cand.s # <<>>
                   /\ ~IsSubstring(ClaimLetters(cand.s), ClaimLetters(text)))
                      => PersistedName = JNull

\* C8: wipe_if_not_in_source returns the candidate exactly as given or null,
\* and returns a null or empty candidate unchanged.
C8_SameOrNull ==
    fn = "wiped" =>
        /\ output \in {input.value, JNull}
        /\ input.value \in {JNull, JStr(<<>>)} => output = input.value

\* C8 witness: a candidate with an upper-case letter and a digit was returned
\* as given
C8_ReturnedAsGiven ==
    /\ fn = "wiped"
    /\ input.value = JStr(<<"A", "1">>)
    /\ output = input.value

\* C9: for a non-empty candidate, wipe_if_not_in_source returns the candidate
\* if and only if its letters, lower-cased, are a substring of the letters of
\* the source, lower-cased, and null otherwise.
C9_LettersSubstring ==
    (fn = "wiped" /\ Truthy(input.value)) =>
        IF IsSubstring(ClaimLetters(input.value.s), ClaimLetters(input.source))
        THEN output = input.value
        ELSE output = JNull

\* C10: preclean is idempotent.
C10_Idempotent == fn = "twice" => output2 = output

\* C10 witness: the bullet before a newline leaves a blank that preclean
\* removes in the same pass
C10_BulletBeforeNewline ==
    /\ fn = "twice"
    /\ input = <<"a", "bullet", "\n", "a">>
    /\ output = <<"a", "-", "\n", "a">>

\* C11: the output of preclean holds no run of three or more newlines, no
\* curly quote, no space or tab directly before a newline, and no whitespace
\* at either end.
C11_Normalized ==
    fn \in {"once", "twice"} =>
        /\ \A i \in 1..(Len(output) - 2) :
              ~(output[i] = "\n" /\ output[i + 1] = "\n" /\ output[i + 2] = "\n")
        /\ \A i \in 1..Len(output) :
              output[i] \notin {"lsquo", "rsquo", "ldquo", "rdquo"}
        /\ \A i \in 1..(Len(output) - 1) :
              ~(output[i] \in {" ", "\t"} /\ output[i + 1] = "\n")
        /\ output # <<>> =>
              /\ output[1] \notin {" ", "\t", "\n"}
              /\ output[Len(output)] \notin {" ", "\t", "\n"}

\* C11 witness: of three newlines inside the text two are left, and the
\* curly quote before them became a plain one
C11_TripleCollapsed ==
    /\ fn = "once"
    /\ input = <<"ldquo", "\n", "\n", "\n", "a">>
    /\ output = <<"\"", "\n", "\n", "a">>

\* generate_html has handed caller c's plan to template.render
Rendered(c) == c.pc = "rendered"

\* C12: when a layout file exists and force_regenerate is false, the planning
\* step returns the content of the file as it is, issues no inference call
\* and does not rewrite the file.
C12_CachedPlanReturned ==
    \A p \in DOMAIN callers :
        LET c == callers[p]
        IN  (Rendered(c) /\ ~c.force_regenerate /\ c.saw # NoFile) =>
                /\ c.layout_plan = c.saw
                /\ ~c.called
                /\ layout_file = c.saw

\* the plan the claims call the fixed default plan
FixedDefaultPlan ==
    LET block(name) == [t |-> "obj",
                        m |-> [component |-> [t |-> "str", s |-> <<name>>],
                               data_key |-> [t |-> "str", s |-> <<name>>]]]
    IN  [t |-> "obj",
         m |-> [pages |-> [t |-> "list", items |-> <<
             [t |-> "obj",
              m |-> [page |-> [t |-> "num", n |-> 1],
                     content |-> [t |-> "list", items |-> <<
                         block("contact_info"), block("summary"),
                         block("work_experience"), block("education"),
                         block("skills")>>]]]>>]]]

\* C13: whenever the layout call throws or its response cannot be parsed,
\* generate_layout_plan returns the fixed default plan (one page, page 1, with
\* the blocks contact_info, summary, work_experience, education, skills in
\* this order), whatever the record and the template.
C13_DefaultOnFailure ==
    \A p \in DOMAIN callers :
        callers[p].fell => callers[p].layout_plan = FixedDefaultPlan

\* C13 witness: the call failed while planning the second record with the
\* second template
C13_FailedForOtherRecord ==
    \E p \in DOMAIN callers :
        /\ Rendered(callers[p])
        /\ callers[p].fell
        /\ callers[p].resume_data = RecordOf(<<"b">>)
        /\ callers[p].template_name = "modern.html"

\* C14: a plan call without a cached plan whose inference call fails writes
\* the default plan to the layout file, and a later call with
\* force_regenerate false that finds it returns it without an inference
\* call.
C14_FallbackCached ==
    \A p \in DOMAIN callers :
        LET c == callers[p]
        IN  /\ (Rendered(c) /\ c.fell) => layout_file = FixedDefaultPlan
            /\ (Rendered(c) /\ ~c.force_regenerate /\ c.saw = FixedDefaultPlan)
                  => /\ c.layout_plan = FixedDefaultPlan
                     /\ ~c.called
                     /\ layout_file = FixedDefaultPlan

\* C14 witness: a call found the default plan that an earlier failed call had
\* written and returned it
C14_DefaultFromCache ==
    \E p \in DOMAIN callers :
        /\ Rendered(callers[p])
        /\ callers[p].hit
        /\ callers[p].saw = FixedDefaultPlan
        /\ callers[p].layout_plan = FixedDefaultPlan

\* v has the shape of LAYOUT_SCHEMA: an object with a list pages of objects,
\* each with a list content of objects with the strings component and
\* data_key
MatchesLayoutSchema(v) ==
    /\ v.t = "obj"
    /\ "pages" \in DOMAIN v.m
    /\ v.m["pages"].t = "list"
    /\ \A i \in 1..Len(v.m["pages"].items) :
          LET page == v.m["pages"].items[i]
          IN  /\ page.t = "obj"
              /\ "content" \in DOMAIN page.m
              /\ page.m["content"].t = "list"
              /\ \A j \in 1..Len(page.m["content"].items) :
                    LET block == page.m["content"].items[j]
                    IN  /\ block.t = "obj"
                        /\ {"component", "data_key"} \subseteq DOMAIN block.m
                        /\ block.m["component"].t = "str"
                        /\ block.m["data_key"].t = "str"

\* C15: every plan call that ends (cached plan loaded, plan generated and
\* cached, default plan) hands the renderer a valid layout plan, whatever the
\* layout file held and whatever JSON the service returned.
C15_ValidPlanRendered ==
    \A p \in DOMAIN callers :
        Rendered(callers[p]) => MatchesLayoutSchema(callers[p].layout_plan)

\* C16: once a plan is cached, the content of the layout file changes only
\* through a plan call with force_regenerate true.
C16_CacheFrame ==
    [][(/\ layout_file # NoFile
        /\ ~Unparseable(layout_file)
        /\ layout_file' # layout_file)
          => \E p \in DOMAIN callers :
                /\ callers[p].pc = "open"
                /\ callers[p].force_regenerate]_vars

\* C17: a plan returned by a plan call with force_regenerate false was
\* produced from the record and the template of that call.
C17_PlanOfThisRecord ==
    \A p \in DOMAIN callers :
        LET c == callers[p]
        IN  (Rendered(c) /\ ~c.force_regenerate) =>
                /\ c.origin # NoOrigin
                /\ c.origin.record = c.resume_data
                /\ c.origin.style = c.template_name

\* C18: read_file_content raises FileNotFoundError for a path that does not
\* exist, whatever its suffix, and ValueError for an existing file of
\* another suffix than .txt, .docx, .pdf; parse_resume then issues no
\* inference call and writes no record.
C18_ReadErrorsFatal ==
    pc # "start" =>
        /\ ~src.exists => pc = "FileNotFoundError"
        /\ (src.exists /\ src.suffix \notin {".txt", ".docx", ".pdf"})
              => pc = "ValueError"
        /\ pc \in {"FileNotFoundError", "ValueError"} =>
              /\ \A k \in DOMAIN calls : calls[k] = 0
              /\ record_file = NoFile
              /\ parsed_data = <<>>

\* C18 witness: a missing path with an unsupported suffix was given
C18_MissingUnsupported ==
    /\ pc = "FileNotFoundError"
    /\ ~src.exists
    /\ src.suffix = ".md"

\* C19: in a run of parse_resume the segmentation call is over before an
\* extractor starts, and the record is written only after all nine sections
\* are done.
C19_StageOrder ==
    /\ (parsed_data # <<>> \/ \E sec \in SectionNames : calls[sec] > 0)
          => /\ calls["segmentation"] = 1
             /\ pc \notin {"start", "segment"}
    /\ (record_file # NoFile /\ calls["ui"] = 0)
          => /\ SectionNames \subseteq DOMAIN parsed_data
             /\ pc \notin {"start", "segment"} \cup SectionNames

\* C19 witness: a record was written in a run in which two extractors issued
\* their call
C19_PersistedAfterCalls ==
    /\ Persisted
    /\ calls["segmentation"] = 1
    /\ \E a, b \in SectionNames : a # b /\ calls[a] = 1 /\ calls[b] = 1

\* C20: when two plan calls for one record interleave, the one that finds
\* the layout file reads a complete plan from it, never an empty or partly
\* written file, so that the load does not fail.
C20_ReaderSeesCompletePlan ==
    \A p \in DOMAIN callers :
        /\ callers[p].pc = "load" => ~Unparseable(layout_file)
        /\ callers[p].pc # "JSONDecodeError"

\* a glyph of the input that stands between two characters that are not
\* whitespace, and the place of its replacement in the output: the place a
\* letter would take after the same characters
Enclosed(i) ==
    /\ i \in 2..(Len(input) - 1)
    /\ input[i] \in DOMAIN Bullets
    /\ input[i - 1] \notin Whitespace
    /\ input[i + 1] \notin Whitespace

PlaceOf(i) == Len(preclean(SubSeq(input, 1, i - 1) \o <<"a">>))

\* C21 as stated: each of the three glyphs, the en dash included, is replaced
\* with a hyphen followed by a space.
C21_AsClaimed ==
    fn = "once" =>
        \A i \in 1..Len(input) :
            Enclosed(i) =>
                /\ PlaceOf(i) + 1 <= Len(output)
                /\ output[PlaceOf(i)] = "-"
                /\ output[PlaceOf(i) + 1] = " "

\* C21 amended: the two bullet glyphs are replaced with a hyphen followed by
\* a space, the en dash with a hyphen alone (the character after it follows
\* the hyphen directly), and no glyph is left in the output.
C21_GlyphsReplaced ==
    fn = "once" =>
        /\ \A j \in 1..Len(output) : output[j] \notin DOMAIN Bullets
        /\ \A i \in 1..Len(input) :
              Enclosed(i) =>
                  /\ PlaceOf(i) + 1 <= Len(output)
                  /\ output[PlaceOf(i)] = "-"
                  /\ IF input[i] = "endash"
                        THEN output[PlaceOf(i) + 1] # " "
                        ELSE output[PlaceOf(i) + 1] = " "

\* C21 witness: a bullet and an en dash, each between letters
C21_DashBetweenLetters ==
    /\ fn = "once"
    /\ input = <<"a", "blackcircle", "a", "endash", "a">>
    /\ output = <<"a", "-", " ", "a", "-", "a">>

\* C22: when a call of generate_html that generated a plan (on a miss or
\* forced) has handed the plan to template.render, the layout file holds that
\* plan; before that, while the file is not yet written, nothing is rendered.
C22_PersistedBeforeRendered ==
    \A p \in DOMAIN callers :
        /\ (Rendered(callers[p]) /\ callers[p].called /\ ~callers[p].fell) =>
               /\ layout_file = callers[p].layout_plan
               /\ cache_origin = callers[p].origin
        /\ (callers[p].called /\ layout_file # callers[p].layout_plan) =>
               ~Rendered(callers[p])

\* C22 witness: a forced call replaced a cached default plan by the plan it
\* generated and rendered
C22_ForcedPlanPersisted ==
    \E p \in DOMAIN callers :
        /\ Rendered(callers[p])
        /\ callers[p].force_regenerate
        /\ callers[p].saw = DefaultPlan
        /\ callers[p].called /\ ~callers[p].fell
        /\ callers[p].layout_plan = SomePlan
        /\ layout_file = SomePlan

\* C23: no inference call is issued twice.  A run of parse_resume issues one
\* segmentation call and at most one call for each section, generate_html at
\* most one layout call, and a call that failed leaves the fallback of its
\* caller: every span empty, the zero-value of the section, the default plan.
C23_NoRetry ==
    /\ \A k \in CallKinds : calls[k] <= 1
    /\ (AllRan /\ calls["ui"] = 0) => calls["segmentation"] = 1
    /\ "segmentation" \in failed =>
           /\ segments = JObj([k \in SEGMENTATION_KEYS |-> JStr(<<>>)])
           /\ \A sec \in SectionNames : calls[sec] = 0
    /\ \A sec \in SectionNames \ {"contact_info"} :
           (sec \in failed /\ sec \in DOMAIN parsed_data) =>
               parsed_data[sec] = ZeroValue(sec)
    /\ ("contact_info" \in failed /\ "contact_info" \in DOMAIN parsed_data) =>
           \/ parsed_data["contact_info"] = ZeroValue("contact_info")
           \/ /\ "contact_info" \in DOMAIN returned
              /\ returned["contact_info"] = ZeroValue("contact_info")
    /\ "layout" \in failed =>
           /\ calls["layout"] = 1
           /\ layout_plan = DefaultPlan
           /\ layout_file = DefaultPlan

\* C23 witness: in one run a section call and the layout call failed, each
\* issued once, and left the zero-value and the default plan
C23_FailedOnce ==
    /\ pc = "planned"
    /\ calls["segmentation"] = 1
    /\ "layout" \in failed /\ calls["layout"] = 1
    /\ layout_plan = DefaultPlan
    /\ \E sec \in SectionNames \ {"contact_info"} :
          /\ sec \in failed /\ calls[sec] = 1
          /\ parsed_data[sec] = ZeroValue(sec)

\* C24: where the extractor of contact_info returned an object and the names
\* are strings (or null), a candidate name that is not empty replaces the name
\* the extractor returned: the final name is the candidate name if it passes
\* the validation and null otherwise.  With an empty candidate name the name
\* of the extractor, if any, is validated and kept or made null.  Every other
\* contact field is kept as it was returned.
C24_CandidateNameFirst ==
    (/\ AllRan
     /\ calls["ui"] = 0
     /\ segments.t = "obj"
     /\ "contact_info" \in DOMAIN returned
     /\ returned["contact_info"].t = "obj") =>
        LET base == returned["contact_info"].m
            ci == parsed_data["contact_info"]
            cand == Get(segments.m, "candidate_name_text", JStr(<<>>))
            own == Get(base, "name", JNull)
        IN  (cand.t \in {"str", "null"} /\ own.t \in {"str", "null"}) =>
                /\ ci.t = "obj"
                /\ DOMAIN ci.m \ {"name"} = DOMAIN base \ {"name"}
                /\ \A k \in DOMAIN base \ {"name"} : ci.m[k] = base[k]
                /\ IF Truthy(cand)
                   THEN /\ "name" \in DOMAIN ci.m
                        /\ ci.m["name"] \in {cand, JNull}
                        /\ ci.m["name"] = wipe_if_not_in_source(cand, text)
                   ELSE IF "name" \in DOMAIN base
                   THEN /\ "name" \in DOMAIN ci.m
                        /\ ci.m["name"] \in {own, JNull}
                        /\ ci.m["name"] = wipe_if_not_in_source(own, text)
                   ELSE "name" \notin DOMAIN ci.m

\* C24 witness: the candidate name does not occur in the source text and the
\* name of the extractor does; the final name is null and the email is kept
C24_ExtractedNameDiscarded ==
    /\ AllRan
    /\ calls["ui"] = 0
    /\ segments.t = "obj"
    /\ Get(segments.m, "candidate_name_text", JNull) = JStr(<<"b">>)
    /\ "contact_info" \in DOMAIN returned
    /\ returned["contact_info"] = JObj([name |-> JStr(<<"a">>), email |-> Email])
    /\ wipe_if_not_in_source(JStr(<<"a">>), text) = JStr(<<"a">>)
    /\ parsed_data["contact_info"] = JObj([name |-> JNull, email |-> Email])

\* the response is a JSON document inside a code fence, with or without the
\* word json after the opening fence
Fenced(resp) ==
    resp.kind = "text" /\ resp \in {FencedJson(resp.json), FencedBare(resp.json)}

\* C25: a response that wraps a JSON document in a code fence parses to the
\* value of the document, with or without the word json after the opening
\* fence: the caller returns that value and not its fallback.
C25_FenceTolerated ==
    (fn \in {"segmented", "planned"} /\ Fenced(input)) =>
        /\ ~output.fell
        /\ output.val = input.json

\* C26: the content summary of a layout request has the top-level keys of the
\* record and no other; a key whose value is a list maps to the number of its
\* entries (0 for the empty list) and a key with any other value (string,
\* object, null) to 1.
C26_SummaryCounts ==
    fn = "summarized" =>
        /\ DOMAIN output = DOMAIN input.m
        /\ \A key \in DOMAIN input.m :
              LET value == input.m[key]
              IN  /\ value.t = "list" => output[key] = Len(value.items)
                  /\ value = JList(<<>>) => output[key] = 0
                  /\ value.t \in {"str", "obj", "null", "num"} => output[key] = 1

\* C26 witness: a record with a list of two entries, an empty list and an
\* object with one key
C26_ListsAndScalars ==
    /\ fn = "summarized"
    /\ input = JObj([work_experience |-> JList(<<Entry, Entry>>),
                     summary |-> JList(<<>>),
                     skills |-> JObj([technical |-> JList(<<>>)])])
    /\ output = [work_experience |-> 2, summary |-> 0, skills |-> 1]

\* C27: a call of generate_html with force_regenerate true issues the layout
\* call whatever the layout file holds and leaves in the file the plan it
\* rendered; when the call failed that is the default plan, and a plan that
\* was cached before is gone.
C27_ForcedOverwrites ==
    \A p \in DOMAIN callers :
        (Rendered(callers[p]) /\ callers[p].force_regenerate) =>
            /\ callers[p].called
            /\ ~callers[p].hit
            /\ layout_file = callers[p].layout_plan
            /\ callers[p].fell => layout_file = FixedDefaultPlan

\* C27 witness: a forced call found a generated plan in the file, its
\* inference call failed, and the file holds the default plan
C27_CachedPlanLost ==
    \E p \in DOMAIN callers :
        /\ Rendered(callers[p])
        /\ callers[p].force_regenerate
        /\ callers[p].saw = SomePlan
        /\ callers[p].fell
        /\ layout_file = FixedDefaultPlan
        /\ layout_file # callers[p].saw

\* the stem of a file name: the name without its last suffix
Stem(name) == IF Len(name) > 1 THEN SubSeq(name, 1, Len(name) - 1) ELSE name

\* C28: the path of the record depends on the directory and the stem of the
\* source only: it is the stem followed by .parsed.json in the directory of
\* the source, so two sources of one directory that differ in their extension
\* only have one record path; and the file at a record path holds the record
\* of the latest parse that wrote there.
C28_PathFromStem ==
    fn = "parse_resume" =>
        /\ \A i \in 1..Len(input) :
              /\ input[i].returned.dir = input[i].src_path.dir
              /\ input[i].returned.name =
                     Stem(input[i].src_path.name) \o <<".parsed", ".json">>
        /\ \A i, j \in 1..Len(input) :
              (/\ input[i].src_path.dir = input[j].src_path.dir
               /\ Stem(input[i].src_path.name) = Stem(input[j].src_path.name))
                  => input[i].returned = input[j].returned
        /\ DOMAIN output = {input[i].returned : i \in 1..Len(input)}
        /\ \A i \in 1..Len(input) :
              (\A j \in (i + 1)..Len(input) :
                    input[j].returned # input[i].returned)
                  => output[input[i].returned] = RecordOf(input[i].doc)

\* C28 witness: resume.txt and then resume.pdf of one directory were parsed;
\* there is one record file and it holds the record of the second
C28_LaterParseOverwrites ==
    /\ fn = "parse_resume"
    /\ Len(input) = 2
    /\ input[1].src_path = [dir |-> "temp_files", name |-> <<"resume", ".txt">>]
    /\ input[2].src_path = [dir |-> "temp_files", name |-> <<"resume", ".pdf">>]
    /\ input[1].doc = <<"a">> /\ input[2].doc = <<"b">>
    /\ DOMAIN output =
          {[dir |-> "temp_files", name |-> <<"resume", ".parsed", ".json">>]}
    /\ \A q \in DOMAIN output : output[q] = RecordOf(<<"b">>)

=============================================================================
